---------------------------- MODULE Spec2Model ----------------------------
(***************************************************************************)
(* DripJobs CEO Dashboard - ClickUp data updater                            *)
(* (src/scripts/update-dashboard.js; src/unnamed/part_000 is its earlier    *)
(* single-window revision).                                                 *)
(*                                                                          *)
(* One run of the script: the module top level checks the configuration,    *)
(* main() issues the two list fetches, awaits both, aggregates the five     *)
(* windows, builds the document and overwrites data.json.                   *)
(*                                                                          *)
(* Time is counted in half days (DayMs units make one day), so that the     *)
(* 90-day window fits TLC's integers.  A date string of the upstream API    *)
(* ("date_closed": "1712345678901") is the one-element sequence holding     *)
(* its number; an absent date (null / undefined) is the empty sequence.     *)
(***************************************************************************)
EXTENDS Integers, Sequences, FiniteSets, TLC

VARIABLES
    env,        \* process.env: TOKEN, TEAM_ID, FEATURES_LIST, BUGS_LIST
    pc,         \* where the module top level / main() stands
    fetch,      \* per getListTasks call: state of its promise
    tasks,      \* per getListTasks call: the value its promise resolved with
    requests,   \* the HTTP requests issued so far, in order
    clock,      \* the wall clock (last value Date.now() returned)
    data,       \* the document main() has assembled
    file,       \* the content of data.json on disk
    exitCode,   \* the process exit code, once the process has ended
    error,      \* what the top level reported on the error stream
    call        \* harness for the pure functions: arguments and return value

vars == <<env, pc, fetch, tasks, requests, clock, data, file, exitCode, error, call>>

-----------------------------------------------------------------------------
(* Values *)

Undefined == "<undefined>"          \* JS undefined / null / unset env variable
NoDate    == <<>>                   \* an absent date_closed
Slots     == {"features", "bugs"}   \* the two getListTasks calls of main()

\* update-dashboard.js:32-33
DONE_STATUSES        == {"complete", "done", "closed", "shipped"}
IN_PROGRESS_STATUSES == {"in progress", "in review", "in qa", "dev", "review"}

\* daysAgo: 24 * 60 * 60 * 1000 ms, here in clock units (half days)
DayMs == 2

\* String.prototype.toLowerCase on the status labels the model feeds in.
toLowerCase(s) ==
    CASE s = "Done"        -> "done"
      [] s = "DONE"        -> "done"
      [] s = "Closed"      -> "closed"
      [] s = "Shipped"     -> "shipped"
      [] s = "In Progress" -> "in progress"
      [] s = "In Review"   -> "in review"
      [] s = "Deferred"    -> "deferred"
      [] s = "New"         -> "new"
      [] OTHER             -> s

\* t.status?.status?.toLowerCase(): undefined when the label is absent
statusLower(t) == IF t.status = Undefined THEN Undefined ELSE toLowerCase(t.status)

-----------------------------------------------------------------------------
(* IEEE-754 double arithmetic of  Math.round((featuresShipped / totalShipped) * 100) *)
(* A big natural is the sequence of its base-2^15 limbs, least significant  *)
(* first, without high zero limbs (<<>> is 0).  A double is                 *)
(* [m: big natural below 2^53 (2^53 itself after a carry), e: integer],     *)
(* the number m * 2^e.                                                      *)

MantissaBits == 53
LimbBits     == 15
Base         == 2^LimbBits

Reverse(sq) == [ri \in 1..Len(sq) |-> sq[Len(sq) + 1 - ri]]

RECURSIVE BigNorm(_)
BigNorm(bx) ==
    IF bx # <<>> /\ bx[Len(bx)] = 0 THEN BigNorm(SubSeq(bx, 1, Len(bx) - 1)) ELSE bx

RECURSIVE BigMulAdd(_, _, _)
\* mx * mc + carry, for mc and carry below Base
BigMulAdd(mx, mc, carry) ==
    IF mx = <<>> THEN (IF carry = 0 THEN <<>> ELSE <<carry>>)
    ELSE LET mp == Head(mx) * mc + carry
         IN  <<mp % Base>> \o BigMulAdd(Tail(mx), mc, mp \div Base)

\* bit number bi (0 is the lowest) of the big natural bx
BigBit(bx, bi) ==
    LET limb == (bi \div LimbBits) + 1
    IN  IF limb > Len(bx) THEN 0 ELSE (bx[limb] \div 2^(bi % LimbBits)) % 2

\* the number of bits of a normalised big natural
BigBitLength(bx) ==
    IF bx = <<>> THEN 0
    ELSE LimbBits * (Len(bx) - 1)
         + (CHOOSE hb \in 1..LimbBits : 2^(hb - 1) <= bx[Len(bx)] /\ bx[Len(bx)] < 2^hb)

\* bx \div 2^sh
BigShiftRight(bx, sh) ==
    LET w == sh \div LimbBits
        r == sh % LimbBits
        y == SubSeq(bx, w + 1, Len(bx))
    IN  BigNorm([si \in 1..Len(y) |->
                    (y[si] \div 2^r)
                    + (IF si < Len(y) THEN (y[si + 1] % 2^r) * 2^(LimbBits - r) ELSE 0)])

\* a big natural below 2^30 as an integer
BigToNat(bx) ==
    IF bx = <<>> THEN 0 ELSE IF Len(bx) = 1 THEN bx[1] ELSE bx[1] + Base * bx[2]

\* Round the exact value  (bx + below) * 2^e,  0 <= below < 1 and below > 0 iff
\* sticky,  to the nearest double, ties to even.
RoundToDouble(bx, sticky, e) ==
    LET L == BigBitLength(bx)
        s == L - MantissaBits
    IN  IF s <= 0 THEN [m |-> bx, e |-> e]
        ELSE LET kept  == BigShiftRight(bx, s)
                 guard == BigBit(bx, s - 1)
                 rest  == sticky \/ \E lo \in 0..(s - 2) : BigBit(bx, lo) = 1
                 up    == guard = 1 /\ (rest \/ BigBit(kept, 0) = 1)
             IN  [m |-> IF up THEN BigMulAdd(kept, 1, 1) ELSE kept, e |-> e + s]

RECURSIVE DivDigits(_, _, _)
\* dn base-2^15 digits of the fraction dr / dt (dr < dt < 2^16), most significant
\* first, then the remainder as the last element
DivDigits(dr, dt, dn) ==
    IF dn = 0 THEN <<dr>>
    ELSE <<(dr * Base) \div dt>> \o DivDigits((dr * Base) % dt, dt, dn - 1)

FractionLimbs == 5

\* the double  f / t  for integers 0 <= f <= t, 0 < t < 2^16
jsDivide(f, t) ==
    LET q      == <<f \div t>> \o DivDigits(f % t, t, FractionLimbs)
        digits == SubSeq(q, 1, FractionLimbs + 1)
    IN  RoundToDouble(BigNorm(Reverse(digits)), q[FractionLimbs + 2] # 0,
                      0 - FractionLimbs * LimbBits)

\* the double  d * c  for an integer 0 < c < 2^15
jsTimes(d, c) == RoundToDouble(BigMulAdd(d.m, c, 0), FALSE, d.e)

\* Math.round of a non-negative double below 2^30: nearest integer, ties
\* towards +Infinity
MathRound(d) ==
    IF d.e >= 0 THEN BigToNat(d.m) * 2^d.e
    ELSE BigToNat(BigShiftRight(d.m, 0 - d.e)) + BigBit(d.m, (0 - d.e) - 1)

\* the reference the numeric semantics name: round-half-up of 100 f / t, exactly
RoundHalfUpPercent(f, t) == (200 * f + t) \div (2 * t)


-----------------------------------------------------------------------------
(* Tasks as the upstream API returns them *)

\* { name, status: { status }, date_created, date_closed, url }
Task(id, status, created, closed) ==
    [id |-> id, name |-> <<"name", id>>, url |-> <<"url", id>>, status |-> status,
     date_created |-> <<created>>, date_closed |-> closed]

\* Number(t.date_created), Number(t.date_closed) of a present date string
Number(dateString) == dateString[1]

\* Date.prototype.toISOString of the instant ms
toISOString(ms) == <<"ISO-8601", ms>>

-----------------------------------------------------------------------------
(* computeStats, update-dashboard.js:75-102 *)

isDone(t)       == statusLower(t) \in DONE_STATUSES
isInProgress(t) == statusLower(t) \in IN_PROGRESS_STATUSES

\* Number(null) is 0 and Number(undefined) is NaN: neither reaches a cutoff,
\* which is a positive instant.
closedInRange(t, sinceMs) ==
    isDone(t) /\ t.date_closed # NoDate /\ Number(t.date_closed) >= sinceMs

createdInRange(t, sinceMs) == Number(t.date_created) >= sinceMs

featuresShippedOf(featureTasks, sinceMs) ==
    Len(SelectSeq(featureTasks, LAMBDA t : closedInRange(t, sinceMs)))

inProgressOf(featureTasks) == Len(SelectSeq(featureTasks, isInProgress))

\* the closed tasks counted over the set of distinct tasks
tasksClosedOf_Distinct(featureTasks, bugTasks, sinceMs) ==
    Cardinality({t \in {featureTasks[i] : i \in 1..Len(featureTasks)}
                        \cup {bugTasks[i] : i \in 1..Len(bugTasks)} :
                    closedInRange(t, sinceMs)})

\* [...featureTasks, ...bugTasks].filter(closedInRange).length
tasksClosedOf(featureTasks, bugTasks, sinceMs) ==
    Len(SelectSeq(featureTasks \o bugTasks, LAMBDA t : closedInRange(t, sinceMs)))

\* open bugs counted only among the bugs that carry a status label
openBugsOf_LabelledOnly(bugTasks) ==
    Len(SelectSeq(bugTasks, LAMBDA t : t.status # Undefined /\ ~isDone(t)))

openBugsOf(bugTasks) == Len(SelectSeq(bugTasks, LAMBDA t : ~isDone(t)))

bugsNewOf(bugTasks, sinceMs) == Len(SelectSeq(bugTasks, LAMBDA t : createdInRange(t, sinceMs)))

bugsResolvedOf(bugTasks, sinceMs) == Len(SelectSeq(bugTasks, LAMBDA t : closedInRange(t, sinceMs)))

bugsDeferredOf(bugTasks) == Len(SelectSeq(bugTasks, LAMBDA t : statusLower(t) = "deferred"))

\* the pass rate with 0 for the window without activity
qaPassRateOf_ZeroWhenEmpty(featuresShipped, bugsClosedInRange) ==
    LET totalShipped == featuresShipped + bugsClosedInRange
    IN  IF totalShipped > 0
        THEN MathRound(jsTimes(jsDivide(featuresShipped, totalShipped), 100))
        ELSE 0

\* totalShipped > 0 ? Math.round((featuresShipped / totalShipped) * 100) : 100
qaPassRateOf(featuresShipped, bugsClosedInRange) ==
    LET totalShipped == featuresShipped + bugsClosedInRange
    IN  IF totalShipped > 0
        THEN MathRound(jsTimes(jsDivide(featuresShipped, totalShipped), 100))
        ELSE 100

computeStats(featureTasks, bugTasks, sinceMs) ==
    LET featuresShipped   == featuresShippedOf(featureTasks, sinceMs)
        bugsClosedInRange == bugsResolvedOf(bugTasks, sinceMs)
        openBugs          == openBugsOf(bugTasks)
    IN  [stats |-> [featuresShipped |-> featuresShipped,
                    qaPassRate      |-> qaPassRateOf(featuresShipped, bugsClosedInRange),
                    inProgress      |-> inProgressOf(featureTasks),
                    openBugs        |-> openBugs,
                    tasksClosed     |-> tasksClosedOf(featureTasks, bugTasks, sinceMs)],
         bugs  |-> [newThisWeek |-> bugsNewOf(bugTasks, sinceMs),
                    resolved    |-> bugsResolvedOf(bugTasks, sinceMs),
                    open        |-> openBugs,
                    deferred    |-> bugsDeferredOf(bugTasks)]]

-----------------------------------------------------------------------------
(* The clock and the five windows, update-dashboard.js:56-64, 116-122 *)

\* Date.now() - n * 24 * 60 * 60 * 1000, with Date.now() = now
daysAgo(n, now) == now - n * DayMs

\* new Date(new Date().getFullYear(), 0, 1).getTime(), with years of 365 days
\* counted from the epoch
YearMs == 365 * DayMs
startOfYear(now) == now - (now % YearMs)


Windows == {"today", "7d", "30d", "90d", "ytd"}

\* the places of main() that read the clock, in program order
Sites == <<"today", "7d", "30d", "90d", "ytd", "lastUpdated">>

WindowDays(w) == CASE w = "today" -> 1 [] w = "7d" -> 7 [] w = "30d" -> 30 [] w = "90d" -> 90

\* the 30-day window computed with daysAgo(3)
Cutoff_ThirtyAsThree(w, t) ==
    IF w = "ytd" THEN startOfYear(t)
    ELSE IF w = "30d" THEN daysAgo(3, t)
    ELSE daysAgo(WindowDays(w), t)

\* the cutoff of window w when its clock reading returned t
Cutoff(w, t) == IF w = "ytd" THEN startOfYear(t) ELSE daysAgo(WindowDays(w), t)

\* const ranges = { today: computeStats(..., daysAgo(1)), ... }; now[w] is what
\* the clock returned to the call made for window w
computeRanges(allFeatureTasks, allBugTasks, now) ==
    [w \in Windows |-> computeStats(allFeatureTasks, allBugTasks, Cutoff(w, now[w]))]

-----------------------------------------------------------------------------
(* Recent activity, update-dashboard.js:124-134 *)

RecentLimit == 5

\* the sort with the comparator reversed: (a, b) => a.date_closed - b.date_closed
RECURSIVE sortByClosedDesc_Ascending(_)
sortByClosedDesc_Ascending(ts) ==
    IF ts = <<>> THEN <<>>
    ELSE LET front  == sortByClosedDesc_Ascending(SubSeq(ts, 1, Len(ts) - 1))
             last   == ts[Len(ts)]
             before == Cardinality({i \in 1..Len(front) :
                          Number(front[i].date_closed) <= Number(last.date_closed)})
         IN  SubSeq(front, 1, before) \o <<last>> \o SubSeq(front, before + 1, Len(front))

\* Array.prototype.sort((a, b) => Number(b.date_closed) - Number(a.date_closed)):
\* stable, descending by closure time
RECURSIVE sortByClosedDesc(_)
sortByClosedDesc(ts) ==
    IF ts = <<>> THEN <<>>
    ELSE LET front  == sortByClosedDesc(SubSeq(ts, 1, Len(ts) - 1))
             last   == ts[Len(ts)]
             before == Cardinality({i \in 1..Len(front) :
                          Number(front[i].date_closed) >= Number(last.date_closed)})
         IN  SubSeq(front, 1, before) \o <<last>> \o SubSeq(front, before + 1, Len(front))

\* .slice(0, n)
sliceTo(sq, n) == SubSeq(sq, 1, IF Len(sq) < n THEN Len(sq) ELSE n)

recentOf(allFeatureTasks, allBugTasks) ==
    LET done   == SelectSeq(allFeatureTasks \o allBugTasks,
                            LAMBDA t : isDone(t) /\ t.date_closed # NoDate)
        latest == sliceTo(sortByClosedDesc(done), RecentLimit)
    IN  [i \in 1..Len(latest) |->
            [title    |-> latest[i].name,
             status   |-> latest[i].status,
             closedAt |-> toISOString(Number(latest[i].date_closed)),
             url      |-> latest[i].url]]

\* const data = { lastUpdated, stats, bugs, ranges, recentActivity }
buildData(allFeatureTasks, allBugTasks, now) ==
    LET ranges == computeRanges(allFeatureTasks, allBugTasks, now)
    IN  [lastUpdated    |-> toISOString(now["lastUpdated"]),
         stats          |-> ranges["7d"].stats,
         bugs           |-> ranges["7d"].bugs,
         ranges         |-> ranges,
         recentActivity |-> recentOf(allFeatureTasks, allBugTasks)]

\* The first revision of the script (unnamed/part_000:69-131) reports one
\* window: main() reads sevenDaysAgo before the fetches and computes the same
\* counters inline, with completedRecently for closedInRange.
legacyMain(allFeatureTasks, allBugTasks, sevenDaysAgo, now) ==
    LET featuresShipped    == featuresShippedOf(allFeatureTasks, sevenDaysAgo)
        openBugs           == openBugsOf(allBugTasks)
        bugsClosedThisWeek == bugsResolvedOf(allBugTasks, sevenDaysAgo)
    IN  [lastUpdated    |-> toISOString(now),
         stats          |-> [featuresShipped |-> featuresShipped,
                             qaPassRate      |-> qaPassRateOf(featuresShipped, bugsClosedThisWeek),
                             inProgress      |-> inProgressOf(allFeatureTasks),
                             openBugs        |-> openBugs,
                             tasksClosed     |-> tasksClosedOf(allFeatureTasks, allBugTasks,
                                                               sevenDaysAgo)],
         bugs           |-> [newThisWeek |-> bugsNewOf(allBugTasks, sevenDaysAgo),
                             resolved    |-> bugsResolvedOf(allBugTasks, sevenDaysAgo),
                             open        |-> openBugs,
                             deferred    |-> bugsDeferredOf(allBugTasks)],
         recentActivity |-> recentOf(allFeatureTasks, allBugTasks)]


-----------------------------------------------------------------------------
(* The environment of one run *)

MaxDrift == 1       \* clock units the wall clock may advance while main() aggregates
Now0     == 1000    \* the wall clock when the process starts

\* the readings the clock can return to the six reading places of main(),
\* starting from c: each unit of drift falls before one of the places or after
\* the last
Readings(c) ==
    { [s \in {Sites[i] : i \in 1..Len(Sites)} |->
          c + Cardinality({d \in 1..MaxDrift :
                  at[d] <= (CHOOSE i \in 1..Len(Sites) : Sites[i] = s)})]
      : at \in [1..MaxDrift -> 1..(Len(Sites) + 1)] }

\* a set of tasks in the order the API returns them (by id)
RECURSIVE SeqById(_)
SeqById(S) ==
    IF S = {} THEN <<>>
    ELSE LET first == CHOOSE t \in S : \A u \in S : t.id <= u.id
         IN  <<first>> \o SeqById(S \ {first})

Falsy(v) == v = Undefined \/ v = ""

TokenValues == {Undefined, "", "pk_token"}
TeamValues  == {Undefined, "", "9001"}
ListValues  == {Undefined, "", "901", "902"}

\* the tasks the workspace holds in each list
ListTasks(listId) ==
    IF listId = "901"
    THEN { Task(1, "done",        Now0 - 40, <<Now0 - 4>>),
           Task(2, "In Progress", Now0 - 6,  NoDate),
           Task(3, "Shipped",     Now0 - 90, <<Now0 - 70>>) }
    ELSE { Task(4, "closed",      Now0 - 10, <<Now0 - 2>>),
           Task(5, "new",         Now0 - 1,  NoDate),
           Task(6, Undefined,     Now0 - 3,  <<Now0 - 1>>) }

\* the JSON bodies a 2xx response for the list can carry: any part of the list
\* (it changes between runs), or an object without a tasks array
Bodies(listId) ==
    { [tasks |-> SeqById(S)] : S \in SUBSET ListTasks(listId) }
      \cup { [err |-> "no tasks member"] }

PrevFile   == <<"document of the previous run">>
Truncated  == <<>>
Partial(d) == <<"prefix of", d>>
\* JSON.stringify(data, null, 2)
Stringify(d) == <<"JSON", d>>

NoCall == [op |-> "none"]

ListOf(slot) == IF slot = "features" THEN env.FEATURES_LIST ELSE env.BUGS_LIST

Init ==
    /\ env \in [TOKEN : TokenValues, TEAM_ID : TeamValues,
                FEATURES_LIST : ListValues, BUGS_LIST : ListValues]
    /\ pc = "load"
    /\ fetch = [s \in Slots |-> "idle"]
    /\ tasks = [s \in Slots |-> <<>>]
    /\ requests = <<>>
    /\ clock = Now0
    /\ data = <<>>
    /\ file = PrevFile
    /\ exitCode = <<>>
    /\ error = "none"
    /\ call = NoCall

-----------------------------------------------------------------------------
(* The run *)

\* process.exit(1) after console.error: from the top level check (36-39) or from
\* main().catch (155-158)
Fail(kind) ==
    /\ pc' = "exited"
    /\ exitCode' = <<1>>
    /\ error' = kind

\* the check with the team identifier forgotten
ConfigMissing_TokenOnly == Falsy(env.TOKEN)

\* if (!TOKEN || !TEAM_ID)
ConfigMissing == Falsy(env.TOKEN) \/ Falsy(env.TEAM_ID)

\* update-dashboard.js:36-39
ExitOnMissingConfig ==
    /\ pc = "load"
    /\ ConfigMissing
    /\ Fail("config")
    /\ UNCHANGED <<env, fetch, tasks, requests, clock, data, file, call>>

\* update-dashboard.js:155: main() is called
StartMain ==
    /\ pc = "load"
    /\ ~ConfigMissing
    /\ pc' = "callFeatures"
    /\ UNCHANGED <<env, fetch, tasks, requests, clock, data, file, exitCode, error, call>>

\* getListTasks without its  if (!listId) return []
getListTasks_NoGuard(slot) ==
    /\ fetch' = [fetch EXCEPT ![slot] = "pending"]
    /\ requests' = Append(requests,
           [slot |-> slot, path |-> <<"/list/", ListOf(slot), "/task">>,
            include_closed |-> TRUE, Authorization |-> env.TOKEN])
    /\ UNCHANGED tasks

\* getListTasks(listId) up to its first await: no request for a falsy id, else
\* clickup() issues the GET and the call waits for the response
getListTasks(slot) ==
    IF Falsy(ListOf(slot))
    THEN /\ fetch' = [fetch EXCEPT ![slot] = "resolved"]
         /\ tasks' = [tasks EXCEPT ![slot] = <<>>]
         /\ UNCHANGED requests
    ELSE /\ fetch' = [fetch EXCEPT ![slot] = "pending"]
         /\ requests' = Append(requests,
                [slot |-> slot, path |-> <<"/list/", ListOf(slot), "/task">>,
                 include_closed |-> TRUE, Authorization |-> env.TOKEN])
         /\ UNCHANGED tasks

\* update-dashboard.js:108
CallFeatures ==
    /\ pc = "callFeatures"
    /\ getListTasks("features")
    /\ pc' = "callBugs"
    /\ UNCHANGED <<env, clock, data, file, exitCode, error, call>>

\* update-dashboard.js:109, then main() suspends in await Promise.all
CallBugs ==
    /\ pc = "callBugs"
    /\ getListTasks("bugs")
    /\ pc' = "awaitAll"
    /\ UNCHANGED <<env, clock, data, file, exitCode, error, call>>

\* main() awaiting the feature fetch before it calls the bug fetch
Yielded_Sequential == pc \in {"callBugs", "awaitAll"}

\* a continuation runs only once the synchronous part of main() has reached its
\* await (run to completion)
Yielded == pc = "awaitAll"

\* fetch() rejects (no connection): the rejection passes through getListTasks,
\* Promise.all and main() to main().catch
FetchFails(slot) ==
    /\ Yielded
    /\ fetch[slot] = "pending"
    /\ fetch' = [fetch EXCEPT ![slot] = "rejected"]
    /\ Fail("fetch")
    /\ UNCHANGED <<env, tasks, requests, clock, data, file, call>>

\* the response arrives with res.ok false: clickup() awaits res.text()
ResponseNotOk(slot) ==
    /\ Yielded
    /\ fetch[slot] = "pending"
    /\ fetch' = [fetch EXCEPT ![slot] = "errorBody"]
    /\ UNCHANGED <<env, pc, tasks, requests, clock, data, file, exitCode, error, call>>

\* throw new Error(`ClickUp API ...`) once the error body is read (or res.text()
\* itself rejects)
ApiError(slot) ==
    /\ Yielded
    /\ fetch[slot] = "errorBody"
    /\ fetch' = [fetch EXCEPT ![slot] = "rejected"]
    /\ Fail("api")
    /\ UNCHANGED <<env, tasks, requests, clock, data, file, call>>

\* the response arrives with res.ok true: clickup() returns res.json()
ResponseOk(slot) ==
    /\ Yielded
    /\ fetch[slot] = "pending"
    /\ fetch' = [fetch EXCEPT ![slot] = "okBody"]
    /\ UNCHANGED <<env, pc, tasks, requests, clock, data, file, exitCode, error, call>>

\* return data.tasks || []
tasksOf(body) == IF "tasks" \in DOMAIN body THEN body.tasks ELSE <<>>

\* res.json() resolves and getListTasks returns
BodyParsed(slot) ==
    /\ Yielded
    /\ fetch[slot] = "okBody"
    /\ \E body \in Bodies(ListOf(slot)) :
          tasks' = [tasks EXCEPT ![slot] = tasksOf(body)]
    /\ fetch' = [fetch EXCEPT ![slot] = "resolved"]
    /\ UNCHANGED <<env, pc, requests, clock, data, file, exitCode, error, call>>

\* res.json() rejects: the body is no JSON
BodyInvalid(slot) ==
    /\ Yielded
    /\ fetch[slot] = "okBody"
    /\ fetch' = [fetch EXCEPT ![slot] = "rejected"]
    /\ Fail("json")
    /\ UNCHANGED <<env, tasks, requests, clock, data, file, call>>

\* Promise.all has resolved: update-dashboard.js:112-144, one synchronous block
Aggregate ==
    /\ pc = "awaitAll"
    /\ \A s \in Slots : fetch[s] = "resolved"
    /\ \E now \in Readings(clock) :
          /\ data' = buildData(tasks["features"], tasks["bugs"], now)
          /\ clock' = now["lastUpdated"]
    /\ pc' = "write"
    /\ UNCHANGED <<env, fetch, tasks, requests, file, exitCode, error, call>>

\* writeFileSync(outPath, ...), flag 'w': the file is opened and truncated ...
WriteOpen ==
    /\ pc = "write"
    /\ file' = Truncated
    /\ pc' = "writing"
    /\ UNCHANGED <<env, fetch, tasks, requests, clock, data, exitCode, error, call>>

\* ... or cannot be opened (EACCES, EROFS); the exception reaches main().catch
WriteOpenFails ==
    /\ pc = "write"
    /\ Fail("write")
    /\ UNCHANGED <<env, fetch, tasks, requests, clock, data, file, call>>

\* ... the document is written, main() logs and returns; the process ends with 0
WriteData ==
    /\ pc = "writing"
    /\ file' = Stringify(data)
    /\ pc' = "done"
    /\ exitCode' = <<0>>
    /\ UNCHANGED <<env, fetch, tasks, requests, clock, data, error, call>>

\* ... or a write fails (ENOSPC, EIO) after none or a part of the bytes
WriteDataFails ==
    /\ pc = "writing"
    /\ file' \in {Truncated, Partial(Stringify(data))}
    /\ Fail("write")
    /\ UNCHANGED <<env, fetch, tasks, requests, clock, data, call>>

Next ==
    \/ ExitOnMissingConfig
    \/ StartMain
    \/ CallFeatures
    \/ CallBugs
    \/ \E slot \in Slots : FetchFails(slot)
    \/ \E slot \in Slots : ResponseNotOk(slot)
    \/ \E slot \in Slots : ApiError(slot)
    \/ \E slot \in Slots : ResponseOk(slot)
    \/ \E slot \in Slots : BodyParsed(slot)
    \/ \E slot \in Slots : BodyInvalid(slot)
    \/ Aggregate
    \/ WriteOpen
    \/ WriteOpenFails
    \/ WriteData
    \/ WriteDataFails

Spec == Init /\ [][Next]_vars

-----------------------------------------------------------------------------
(* Properties of the run *)

Issued(slot) == \E i \in 1..Len(requests) : requests[i].slot = slot

\* a response to the slot's request has reached the program
Responded(slot) == Issued(slot) /\ fetch[slot] # "pending"

\* C1: a failed run (exit code 1), whatever failed, leaves data.json with the
\* content it had before the run.
C1_FailedRunLeavesFileUntouched == exitCode = <<1>> => file = PrevFile

\* C2: both fetches are issued before the response to either is handled;
\* the document is assembled and the file written only after both calls have
\* resolved; once a fetch has rejected the run has failed without aggregating
\* or writing, whatever the state of the other fetch.
C2_FetchesConcurrentAllOrNothing ==
    /\ \A s \in Slots : Responded(s) =>
          \A o \in Slots : fetch[o] # "idle" /\ (~Falsy(ListOf(o)) => Issued(o))
    /\ (pc \in {"write", "writing", "done"} \/ data # <<>> \/ file # PrevFile)
          => \A s \in Slots : fetch[s] = "resolved"
    /\ \A s \in Slots : fetch[s] = "rejected" =>
          pc = "exited" /\ exitCode = <<1>> /\ data = <<>> /\ file = PrevFile

\* one fetch rejected after the other had completed successfully
C2_Witness ==
    /\ fetch["features"] = "rejected"
    /\ Responded("bugs") /\ fetch["bugs"] = "resolved"
    /\ exitCode = <<1>>

\* C3: with the token or the team identifier missing the process can only exit
\* with code 1 from the top level, and no request is ever issued.
C3_MissingConfigFailsBeforeAnyRequest ==
    (Falsy(env.TOKEN) \/ Falsy(env.TEAM_ID)) =>
        /\ requests = <<>>
        /\ pc \in {"load", "exited"}
        /\ \A s \in Slots : fetch[s] = "idle"
        /\ pc = "exited" => exitCode = <<1>> /\ error = "config"

C3_Witness ==
    /\ ~Falsy(env.TOKEN) /\ Falsy(env.TEAM_ID)
    /\ ~Falsy(env.FEATURES_LIST) /\ ~Falsy(env.BUGS_LIST)
    /\ pc = "exited" /\ exitCode = <<1>>

\* the snapshot of every window of document d counts nothing for the features
FeatureCountersZero(d) ==
    \A w \in Windows : d.ranges[w].stats.featuresShipped = 0 /\ d.ranges[w].stats.inProgress = 0

BugCountersZero(d) ==
    \A w \in Windows :
        /\ d.ranges[w].stats.openBugs = 0
        /\ d.ranges[w].bugs = [newThisWeek |-> 0, resolved |-> 0, open |-> 0, deferred |-> 0]

\* C7: a getListTasks call with an unset (or empty) list identifier issues no
\* request, never rejects and yields the empty collection; a run with a list
\* unset that ends with code 0 has written the document with the counters of the
\* empty collection, and a run with both unset can fail only in the write.
C7_UnsetListIsEmptyCollection ==
    /\ \A s \in Slots : Falsy(ListOf(s)) =>
          ~Issued(s) /\ fetch[s] \in {"idle", "resolved"} /\ tasks[s] = <<>>
    /\ pc = "done" =>
          /\ exitCode = <<0>> /\ file = Stringify(data)
          /\ Falsy(env.FEATURES_LIST) => FeatureCountersZero(data)
          /\ Falsy(env.BUGS_LIST) => BugCountersZero(data)
          /\ (Falsy(env.FEATURES_LIST) /\ Falsy(env.BUGS_LIST)) =>
                /\ data.recentActivity = <<>>
                /\ \A w \in Windows : data.ranges[w].stats =
                      [featuresShipped |-> 0, qaPassRate |-> 100, inProgress |-> 0,
                       openBugs |-> 0, tasksClosed |-> 0]
    /\ (Falsy(env.FEATURES_LIST) /\ Falsy(env.BUGS_LIST) /\ ~ConfigMissing
          /\ pc = "exited") => error = "write"

C7_Witness ==
    /\ Falsy(env.FEATURES_LIST) /\ ~Falsy(env.BUGS_LIST)
    /\ pc = "done" /\ file = Stringify(data)
    /\ data.stats.openBugs > 0

-----------------------------------------------------------------------------
(* computeStats on its own: the call is made with drawn arguments *)

\* the run is not under way while a function is exercised on its own
Idle ==
    /\ env = [TOKEN |-> Undefined, TEAM_ID |-> Undefined,
              FEATURES_LIST |-> Undefined, BUGS_LIST |-> Undefined]
    /\ pc = "idle"
    /\ fetch = [s \in Slots |-> "idle"]
    /\ tasks = [s \in Slots |-> <<>>]
    /\ requests = <<>>
    /\ clock = Now0
    /\ data = <<>>
    /\ file = PrevFile
    /\ exitCode = <<>>
    /\ error = "none"

runVars == <<env, pc, fetch, tasks, requests, clock, data, file, exitCode, error>>

StatsFeaturePool ==
    { Task(1, "done",        Now0 - 40,  <<Now0 - 4>>),
      Task(2, "done",        Now0 - 50,  <<Now0 - 4>>),
      Task(3, "In Progress", Now0 - 6,   NoDate),
      Task(4, "Done",        Now0 - 90,  <<Now0 - 30>>),
      Task(5, "Shipped",     Now0 - 300, <<Now0 - 200>>),
      Task(6, "in review",   Now0 - 9,   <<Now0 - 1>>) }

\* the bug list; it holds task 1 too when both identifiers name the same list
StatsBugPool ==
    { Task(1,  "done",     Now0 - 40,  <<Now0 - 4>>),
      Task(7,  "closed",   Now0 - 10,  <<Now0 - 2>>),
      Task(8,  "new",      Now0 - 1,   NoDate),
      Task(9,  "Deferred", Now0 - 100, NoDate),
      Task(10, Undefined,  Now0 - 3,   <<Now0 - 1>>),
      Task(11, "DONE",     Now0 - 20,  NoDate) }

\* the cutoffs main() passes when the clock stands at Now0
StatsCutoffs == {Cutoff(w, Now0) : w \in Windows}

\* 23 features shipped and 17 bugs closed in the 7-day window
RoundingInput ==
    [featureTasks |-> [i \in 1..23 |-> Task(100 + i, "done", Now0 - 40, <<Now0 - 4>>)],
     bugTasks     |-> [i \in 1..17 |-> Task(200 + i, "closed", Now0 - 10, <<Now0 - 2>>)],
     sinceMs      |-> Cutoff("7d", Now0)]

\* 1 feature shipped and 7 bugs closed: 12.5 per cent exactly
HalfInput ==
    [featureTasks |-> <<Task(101, "done", Now0 - 40, <<Now0 - 4>>)>>,
     bugTasks     |-> [i \in 1..7 |-> Task(200 + i, "closed", Now0 - 10, <<Now0 - 2>>)],
     sinceMs      |-> Cutoff("7d", Now0)]

StatsInputs ==
    { [featureTasks |-> SeqById(F), bugTasks |-> SeqById(B), sinceMs |-> c] :
        F \in SUBSET StatsFeaturePool, B \in SUBSET StatsBugPool, c \in StatsCutoffs }
      \cup {RoundingInput, HalfInput}

\* the first revision computes its counters in main(), for the 7-day cutoff it
\* read on entry
LegacyStatsInputs == {a \in StatsInputs : a.sinceMs = daysAgo(7, Now0)}

InitStats ==
    /\ Idle
    /\ call \in {[op |-> "computeStats", args |-> a, ret |-> <<>>] : a \in StatsInputs}
                \cup {[op |-> "legacyMain", args |-> a, ret |-> <<>>] : a \in LegacyStatsInputs}

\* computeStats returns
ReturnStats ==
    /\ call.op = "computeStats"
    /\ call.ret = <<>>
    /\ call' = [call EXCEPT !.ret =
          <<computeStats(call.args.featureTasks, call.args.bugTasks, call.args.sinceMs)>>]
    /\ UNCHANGED runVars

\* main() of the first revision has its counters, with the collections and
\* sevenDaysAgo as it holds them after the await
ReturnLegacyStats ==
    /\ call.op = "legacyMain"
    /\ call.ret = <<>>
    /\ \E now \in clock..(clock + MaxDrift) :
          call' = [call EXCEPT !.ret =
              <<legacyMain(call.args.featureTasks, call.args.bugTasks, call.args.sinceMs, now)>>]
    /\ UNCHANGED runVars

NextStats == ReturnStats \/ ReturnLegacyStats

SpecStats == InitStats /\ [][NextStats]_vars

\* the counters are there, of either revision
StatsReturned == call.op \in {"computeStats", "legacyMain"} /\ call.ret # <<>>

(* The reference: the definitions of the counters, with the status labels that
   match case-insensitively written out. *)
RefDoneLabels == {"complete", "done", "Done", "DONE", "closed", "Closed", "shipped", "Shipped"}
RefInProgressLabels ==
    {"in progress", "In Progress", "in review", "In Review", "in qa", "dev", "review"}
RefDeferredLabels == {"deferred", "Deferred"}

RefDone(t) == t.status \in RefDoneLabels
RefClosedSince(t, since) == RefDone(t) /\ t.date_closed # NoDate /\ t.date_closed[1] >= since
RefCount(sq, p(_)) == Cardinality({i \in 1..Len(sq) : p(sq[i])})

\* C4 as stated: the pass rate is within 0..100 and is 100 exactly when nothing
\* was closed in the window.
C4_PassRateHundredIffNothingClosed ==
    StatsReturned =>
        LET r == call.ret[1]
        IN  /\ r.stats.qaPassRate \in 0..100
            /\ r.stats.qaPassRate = 100 <=> r.stats.featuresShipped + r.bugs.resolved = 0

\* C4 amended: the pass rate is within 0..100 and is 100 whenever no bug was
\* closed in the window, in particular when nothing was closed in it.
C4_PassRateHundredWhenNothingClosed ==
    StatsReturned =>
        LET r == call.ret[1]
        IN  /\ r.stats.qaPassRate \in 0..100
            /\ r.stats.featuresShipped + r.bugs.resolved = 0 => r.stats.qaPassRate = 100
            /\ r.bugs.resolved = 0 => r.stats.qaPassRate = 100

\* a window in which nothing was closed although both collections hold tasks
C4_Witness ==
    /\ StatsReturned
    /\ call.args.featureTasks # <<>> /\ call.args.bugTasks # <<>>
    /\ call.ret[1].stats.featuresShipped + call.ret[1].bugs.resolved = 0
    /\ call.ret[1].stats.qaPassRate = 100

\* C5: the open bugs and the done bugs together are all the bugs, also with
\* bugs whose label is absent or in neither status set.
C5_OpenPlusDoneIsAllBugs ==
    StatsReturned =>
        LET r   == call.ret[1]
            bug == call.args.bugTasks
        IN  /\ r.stats.openBugs + RefCount(bug, isDone) = Len(bug)
            /\ r.bugs.open = r.stats.openBugs

C5_Witness ==
    /\ StatsReturned
    /\ \E i, j, k \in 1..Len(call.args.bugTasks) :
          /\ call.args.bugTasks[i].status = Undefined
          /\ call.args.bugTasks[j].status = "new"
          /\ isDone(call.args.bugTasks[k])

TaskSet(sq) == {sq[i] : i \in 1..Len(sq)}

\* C8 as stated: tasksClosed counts the tasks of the union of the two
\* collections that were closed in the window, a task of both once.
C8_TasksClosedCountsUnion ==
    StatsReturned =>
        call.ret[1].stats.tasksClosed =
            Cardinality({t \in TaskSet(call.args.featureTasks) \cup TaskSet(call.args.bugTasks) :
                            RefClosedSince(t, call.args.sinceMs)})

\* C8 amended: tasksClosed is the number of feature tasks closed in the window
\* plus the number of bug tasks closed in the window (a task of both counts
\* twice); it is featuresShipped + bugs.resolved.
C8_TasksClosedCountsBothCollections ==
    StatsReturned =>
        LET r == call.ret[1]
            a == call.args
        IN  /\ r.stats.tasksClosed =
                  RefCount(a.featureTasks, LAMBDA t : RefClosedSince(t, a.sinceMs))
                  + RefCount(a.bugTasks, LAMBDA t : RefClosedSince(t, a.sinceMs))
            /\ r.stats.tasksClosed = r.stats.featuresShipped + r.bugs.resolved

\* a task closed in the window is in both collections
C8_Witness ==
    /\ StatsReturned
    /\ \E t \in TaskSet(call.args.featureTasks) \cap TaskSet(call.args.bugTasks) :
          RefClosedSince(t, call.args.sinceMs)
    /\ call.ret[1].stats.tasksClosed >= 2

\* C9: every counter computeStats returns is the reference count, and the pass
\* rate is round-half-up of 100 featuresShipped / (featuresShipped + bugsResolved)
\* (100 when that sum is 0).
C9_AgreesWithReference ==
    StatsReturned =>
        LET r       == call.ret[1]
            a       == call.args
            shipped == RefCount(a.featureTasks, LAMBDA t : RefClosedSince(t, a.sinceMs))
            fixed   == RefCount(a.bugTasks, LAMBDA t : RefClosedSince(t, a.sinceMs))
        IN  /\ r.stats.featuresShipped = shipped
            /\ r.stats.inProgress =
                  RefCount(a.featureTasks, LAMBDA t : t.status \in RefInProgressLabels)
            /\ r.bugs.resolved = fixed
            /\ r.bugs.newThisWeek =
                  RefCount(a.bugTasks, LAMBDA t : t.date_created[1] >= a.sinceMs)
            /\ r.bugs.deferred =
                  RefCount(a.bugTasks, LAMBDA t : t.status \in RefDeferredLabels)
            /\ r.stats.openBugs = RefCount(a.bugTasks, LAMBDA t : ~RefDone(t))
            /\ r.stats.qaPassRate =
                  IF shipped + fixed > 0 THEN RoundHalfUpPercent(shipped, shipped + fixed)
                  ELSE 100

-----------------------------------------------------------------------------
(* The document on its own: main() from the resolved fetches to `data` *)

ReportFeaturePool ==
    { Task(1, "done",        Now0 - 1,   <<Now0 - 1>>),
      Task(2, "done",        Now0 - 30,  <<Now0 - 2>>),
      Task(3, "Done",        Now0 - 50,  <<Now0 - 14>>),
      Task(4, "closed",      Now0 - 90,  <<Now0 - 60>>),
      Task(5, "Shipped",     Now0 - 300, <<Now0 - 180>>),
      Task(6, "In Progress", Now0 - 6,   NoDate) }

\* the bug list; it holds task 1 too when both identifiers name the same list
ReportBugPool ==
    { Task(1,  "done",     Now0 - 1,   <<Now0 - 1>>),
      Task(7,  "closed",   Now0 - 14,  <<Now0 - 3>>),
      Task(8,  "new",      Now0 - 2,   NoDate),
      Task(9,  "Deferred", Now0 - 60,  NoDate),
      Task(10, "DONE",     Now0 - 180, <<Now0 - 15>>),
      Task(11, Undefined,  Now0 - 3,   <<Now0>>) }

ReportInputs ==
    { [allFeatureTasks |-> SeqById(F), allBugTasks |-> SeqById(B)] :
        F \in SUBSET ReportFeaturePool, B \in SUBSET ReportBugPool }

InitReport ==
    /\ Idle
    /\ call \in {[op |-> "buildData", args |-> a, ret |-> <<>>] : a \in ReportInputs}
                \cup {[op |-> "legacyMain", args |-> a, ret |-> <<>>] : a \in ReportInputs}

\* main() assembles the document, reading the clock as it goes
ReturnData ==
    /\ call.op = "buildData"
    /\ call.ret = <<>>
    /\ \E now \in Readings(clock) :
          call' = [call EXCEPT !.ret =
              <<buildData(call.args.allFeatureTasks, call.args.allBugTasks, now)>>]
    /\ UNCHANGED runVars

\* main() of the first revision assembles its document; it read sevenDaysAgo
\* when the process started
ReturnLegacyData ==
    /\ call.op = "legacyMain"
    /\ call.ret = <<>>
    /\ \E now \in clock..(clock + MaxDrift) :
          call' = [call EXCEPT !.ret =
              <<legacyMain(call.args.allFeatureTasks, call.args.allBugTasks,
                           daysAgo(7, Now0), now)>>]
    /\ UNCHANGED runVars

NextReport == ReturnData \/ ReturnLegacyData

SpecReport == InitReport /\ [][NextReport]_vars

DataBuilt == call.op = "buildData" /\ call.ret # <<>>

\* the document is there, of either revision
DocumentBuilt == call.op \in {"buildData", "legacyMain"} /\ call.ret # <<>>

\* the done tasks with a closure time among the tasks of both collections
DoneDated(a) ==
    SelectSeq(a.allFeatureTasks \o a.allBugTasks,
              LAMBDA t : RefDone(t) /\ t.date_closed # NoDate)

ClosedAt(entry) == entry.closedAt[2]

\* C6: recentActivity has at most 5 entries, each a done task of the two
\* collections, in descending order of closure time, and no done task closed
\* later than an entry is left out.
C6_RecentActivityIsLatestFive ==
    DocumentBuilt =>
        LET recent == call.ret[1].recentActivity
            done   == DoneDated(call.args)
        IN  /\ Len(recent) <= 5
            /\ Len(recent) = (IF Len(done) < 5 THEN Len(done) ELSE 5)
            /\ \A i, j \in 1..Len(recent) : i < j => ClosedAt(recent[i]) >= ClosedAt(recent[j])
            /\ \A i \in 1..Len(recent) :
                  \E k \in 1..Len(done) :
                      /\ recent[i].title = done[k].name
                      /\ recent[i].url = done[k].url
                      /\ recent[i].status = done[k].status
                      /\ ClosedAt(recent[i]) = done[k].date_closed[1]
            /\ \A i \in 1..Len(recent) :
                  Cardinality({k \in 1..Len(done) : done[k].date_closed[1] > ClosedAt(recent[i])})
                    = Cardinality({j \in 1..Len(recent) : ClosedAt(recent[j]) > ClosedAt(recent[i])})

\* more than five done tasks, five listed, an older one left out
C6_Witness ==
    /\ DocumentBuilt
    /\ Len(DoneDated(call.args)) > 5
    /\ Len(call.ret[1].recentActivity) = 5
    /\ \E k \in 1..Len(DoneDated(call.args)) :
          DoneDated(call.args)[k].date_closed[1] < ClosedAt(call.ret[1].recentActivity[5])

\* C10: in the document the counters that depend on the window do not decrease
\* from today to 7d to 30d to 90d, and the counters that do not depend on it are
\* the same in all five windows.
C10_WindowsMonotone ==
    DataBuilt =>
        LET r == call.ret[1].ranges
        IN  /\ \A p \in {<<"today", "7d">>, <<"7d", "30d">>, <<"30d", "90d">>} :
                  /\ r[p[1]].stats.featuresShipped <= r[p[2]].stats.featuresShipped
                  /\ r[p[1]].stats.tasksClosed <= r[p[2]].stats.tasksClosed
                  /\ r[p[1]].bugs.resolved <= r[p[2]].bugs.resolved
                  /\ r[p[1]].bugs.newThisWeek <= r[p[2]].bugs.newThisWeek
            /\ \A w \in Windows :
                  /\ r[w].stats.inProgress = r["7d"].stats.inProgress
                  /\ r[w].stats.openBugs = r["7d"].stats.openBugs
                  /\ r[w].bugs.open = r["7d"].stats.openBugs
                  /\ r[w].bugs.deferred = r["7d"].bugs.deferred

\* the clock moved between the readings and every window holds more than the
\* one before
C10_Witness ==
    /\ DataBuilt
    /\ call.ret[1].lastUpdated # toISOString(Now0)
    /\ LET r == call.ret[1].ranges
       IN  /\ r["today"].stats.featuresShipped < r["7d"].stats.featuresShipped
           /\ r["7d"].stats.featuresShipped < r["30d"].stats.featuresShipped
           /\ r["30d"].stats.featuresShipped < r["90d"].stats.featuresShipped
           /\ r["today"].bugs.newThisWeek < r["90d"].bugs.newThisWeek
           /\ r["today"].stats.inProgress > 0
           /\ r["today"].stats.openBugs > 0

=============================================================================
